---------------------------- MODULE Spec2Model ----------------------------
(***************************************************************************)
(* Task registry (utils/estado.py), background job runner and pagination   *)
(* walker (scripts/web_scraping_api.py) and the scraping endpoints         *)
(* (api/v1/endpoints/scraping.py) of the techchallenge repository.         *)
(*                                                                         *)
(* Python values are encoded as follows.                                   *)
(*   None            the empty tuple <<>>; a present optional value v is   *)
(*                   the 1-tuple <<v>>                                      *)
(*   dict            a function whose domain is the set of keys            *)
(*   list object     an address into heap; heap[a] is the list's contents. *)
(*                   Two references are the same object iff the addresses  *)
(*                   are equal (dict.copy() copies references).            *)
(*   datetime.now()  the current value of relogio                          *)
(*   f-string        a record of the format and its interpolated values    *)
(***************************************************************************)
EXTENDS Naturals, Sequences, FiniteSets

VARIABLES
    tarefas_estado,   \* estado.py: the global dict  tarefa_id -> record
    heap,             \* list objects referenced from records and locals
    relogio,          \* wall clock read by datetime.now()
    chamada,          \* the registry call that returned last, as its caller saw it
    copia,            \* a record a registry caller still holds from an earlier obter_tarefa
    emitidos,         \* task ids uuid4 has already produced
    exec,             \* frames of executar_scraper_background, one per dispatched task
    resposta,         \* the HTTP response sent last
    carregada,        \* the page an extractor is run on alone, as the driver shows it
    extraido,         \* what that extractor returned
    tarefas_lock,     \* estado.py: the thread that holds tarefas_lock, or None
    threads           \* threads inside a registry operation, statement by statement

vars == <<tarefas_estado, heap, relogio, chamada, copia, emitidos, exec, resposta,
          carregada, extraido, tarefas_lock, threads>>

-----------------------------------------------------------------------------
(* Bounds of the model *)

MaxTarefas == 2     \* task ids that can be created
MaxRelogio == 1     \* clock ticks
MaxLista == 2       \* longest list a registry caller builds by appending
MaxCap == 2         \* largest max_paginas a single job is configured with
MaxLinhas == 3      \* most <li> elements of a listing page an extractor is run on
MaxPecas == 3       \* most pieces of the class attribute of a rating element
MaxSubmissoes == 4  \* jobs submitted when the dispatch of jobs is followed

TarefaIds == 1..MaxTarefas

-----------------------------------------------------------------------------
(* Python values *)

None == <<>>
Some(v) == <<v>>
Valor(o) == o[1]

\* mensagem strings: the literal or f-string and what it interpolates
MsgAguardando == [fmt |-> "Aguardando inicio da execucao...", n |-> 0, e |-> ""]
MsgIniciando == [fmt |-> "Iniciando scraper...", n |-> 0, e |-> ""]
MsgConcluido(n) == [fmt |-> "Scraping concluido! {n} produtos coletados.", n |-> n, e |-> ""]
MsgErro(e) == [fmt |-> "Erro: {e}", n |-> 0, e |-> e]

\* faulty variant: the dict is replaced by kwargs, the other keys are lost
DictSubstitui(d, kwargs) == kwargs

\* dict.update(kwargs): keys of kwargs are set (added when new), the others kept
DictUpdate(d, kwargs) ==
    [k \in DOMAIN d \cup DOMAIN kwargs |->
        IF k \in DOMAIN kwargs THEN kwargs[k] ELSE d[k]]

\* dict.copy(): a new dict with the same keys bound to the same objects
DictCopy(d) == [k \in DOMAIN d |-> d[k]]

-----------------------------------------------------------------------------
(* utils/estado.py: the registry operations, each entirely under tarefas_lock *)

\* faulty variant: a new record that is already running
NovaTarefaEmProgresso(agora) ==
    [status |-> "em_progresso",
     progresso |-> 5,
     mensagem |-> MsgAguardando,
     resultados |-> None,
     erro |-> None,
     timestamp_criacao |-> Some(agora),
     timestamp_conclusao |-> None]

NovaTarefa(agora) ==
    [status |-> "aguardando",
     progresso |-> 0,
     mensagem |-> MsgAguardando,
     resultados |-> None,
     erro |-> None,
     timestamp_criacao |-> Some(agora),
     timestamp_conclusao |-> None]

\* faulty variant: an existing record is kept (setdefault instead of assignment)
CriarTarefaSeAusente(estado, tarefa_id, agora) ==
    [t \in DOMAIN estado \cup {tarefa_id} |->
        IF t \in DOMAIN estado THEN estado[t] ELSE NovaTarefa(agora)]

\* criar_tarefa: binds tarefa_id to a new record, whatever was bound before
CriarTarefa(estado, tarefa_id, agora) ==
    [t \in DOMAIN estado \cup {tarefa_id} |->
        IF t = tarefa_id THEN NovaTarefa(agora) ELSE estado[t]]

\* faulty variant: an absent id gets a record made of kwargs (upsert)
AtualizarOuCriar(estado, tarefa_id, kwargs) ==
    [t \in DOMAIN estado \cup {tarefa_id} |->
        IF t # tarefa_id THEN estado[t]
        ELSE IF t \in DOMAIN estado THEN DictUpdate(estado[t], kwargs) ELSE kwargs]

\* atualizar_tarefa: merges kwargs into the record when tarefa_id is present
AtualizarTarefa(estado, tarefa_id, kwargs) ==
    IF tarefa_id \in DOMAIN estado
    THEN [estado EXCEPT ![tarefa_id] = DictUpdate(estado[tarefa_id], kwargs)]
    ELSE estado

\* obter_tarefa: a shallow copy of the record, or None
ObterTarefa(estado, tarefa_id) ==
    IF tarefa_id \in DOMAIN estado
    THEN Some(DictCopy(estado[tarefa_id]))
    ELSE None

\* obter_todas_tarefas: a dict of shallow copies
ObterTodasTarefas(estado) ==
    [t \in DOMAIN estado |-> DictCopy(estado[t])]

\* faulty variant: every finished record is selected, failed ones included
ConcluidasOuErro(estado) ==
    {t \in DOMAIN estado : estado[t]["status"] \in {"concluido", "erro"}}

\* limpar_concluidas: the keys it deletes, the dict it leaves and what it returns
Concluidas(estado) == {t \in DOMAIN estado : estado[t]["status"] = "concluido"}

LimparConcluidas(estado) ==
    [estado |-> [t \in DOMAIN estado \ Concluidas(estado) |-> estado[t]],
     ret |-> Cardinality(Concluidas(estado))]


-----------------------------------------------------------------------------
(* Extracted product records and the deep value of a record *)

Produto(u) == [url |-> u]

\* what a reader of the record sees when it follows the reference in "resultados"
Visto(rec, h) ==
    IF "resultados" \in DOMAIN rec /\ rec["resultados"] # None
    THEN [rec EXCEPT !["resultados"] = Some(h[Valor(rec["resultados"])])]
    ELSE rec

VistoOpt(o, h) == IF o = None THEN None ELSE Some(Visto(Valor(o), h))

-----------------------------------------------------------------------------
(* The registry driven directly by a caller of its five operations *)

\* A call as its caller saw it: the operation and its arguments, whether tarefa_id
\* was a key when the call began, the exception it raised (no registry operation
\* has a raise statement or a failing lookup, so it is None) and what it returned
Retorno(op, id, kwargs, existia, ret) ==
    [op |-> op, id |-> id, kwargs |-> kwargs, existia |-> existia,
     levantou |-> None, ret |-> ret]

NenhumaChamada == Retorno("nenhuma", 0, <<>>, FALSE, None)

KwIniciando ==
    [status |-> "em_progresso", mensagem |-> MsgIniciando, progresso |-> 5]

KwConcluido(a, n, agora) ==
    [status |-> "concluido",
     progresso |-> 100,
     mensagem |-> MsgConcluido(n),
     resultados |-> Some(a),
     erro |-> None,
     timestamp_conclusao |-> Some(agora)]

\* faulty variant: the handler's update leaves "resultados" as it is
KwErroSemResultados(msg, agora) ==
    [status |-> "erro",
     progresso |-> 0,
     mensagem |-> MsgErro(msg),
     erro |-> Some(msg),
     timestamp_conclusao |-> Some(agora)]

KwErro(msg, agora) ==
    [status |-> "erro",
     progresso |-> 0,
     mensagem |-> MsgErro(msg),
     resultados |-> None,
     erro |-> Some(msg),
     timestamp_conclusao |-> Some(agora)]

\* keyword arguments a caller passes to atualizar_tarefa: the three shapes the job
\* runner uses (three keys, six keys) and no key at all. The timestamp is the
\* caller's value; the registry reads the clock in criar_tarefa only.
KwargsDoChamador(h) ==
    {KwIniciando, KwErro("falha", 0), <<>>}
    \cup {KwConcluido(a, Len(h[a]), 0) : a \in DOMAIN h}

\* an empty registry, and one list the caller has built to pass as "resultados"
InitRegistro ==
    /\ tarefas_estado = <<>>
    /\ heap = << <<Produto("p1")>> >>
    /\ relogio = 0
    /\ chamada = NenhumaChamada
    /\ copia = None
    /\ emitidos = {}
    /\ exec = <<>>
    /\ resposta = None
    /\ carregada = None
    /\ extraido = None
    /\ tarefas_lock = None
    /\ threads = <<>>

ForaDoRegistro == UNCHANGED <<emitidos, exec, resposta, carregada, extraido, tarefas_lock, threads>>

Tique ==
    /\ relogio < MaxRelogio
    /\ relogio' = relogio + 1
    /\ UNCHANGED <<tarefas_estado, heap, chamada, copia, emitidos, exec, resposta,
                   carregada, extraido, tarefas_lock, threads>>

ChamarCriar(id) ==
    /\ tarefas_estado' = CriarTarefa(tarefas_estado, id, relogio)
    /\ chamada' = Retorno("criar_tarefa", id, <<>>, id \in DOMAIN tarefas_estado, None)
    /\ UNCHANGED <<heap, relogio, copia>>
    /\ ForaDoRegistro

ChamarAtualizar(id, kwargs) ==
    /\ tarefas_estado' = AtualizarTarefa(tarefas_estado, id, kwargs)
    /\ chamada' = Retorno("atualizar_tarefa", id, kwargs, id \in DOMAIN tarefas_estado, None)
    /\ UNCHANGED <<heap, relogio, copia>>
    /\ ForaDoRegistro

\* the caller keeps the returned record
ChamarObter(id) ==
    /\ chamada' = Retorno("obter_tarefa", id, <<>>, id \in DOMAIN tarefas_estado,
                         ObterTarefa(tarefas_estado, id))
    /\ UNCHANGED <<tarefas_estado, heap, relogio, copia>>
    /\ ForaDoRegistro

ChamarObterTodas ==
    /\ chamada' = Retorno("obter_todas_tarefas", 0, <<>>, FALSE,
                         ObterTodasTarefas(tarefas_estado))
    /\ UNCHANGED <<tarefas_estado, heap, relogio, copia>>
    /\ ForaDoRegistro

ChamarLimpar ==
    /\ tarefas_estado' = LimparConcluidas(tarefas_estado).estado
    /\ chamada' = Retorno("limpar_concluidas", 0, <<>>, FALSE,
                         LimparConcluidas(tarefas_estado).ret)
    /\ UNCHANGED <<heap, relogio, copia>>
    /\ ForaDoRegistro

\* the caller assigns a key of the record it holds
MutarCampo ==
    /\ copia # None
    /\ copia' = Some([Valor(copia) EXCEPT !["progresso"] = 99])
    /\ chamada' = Retorno("mutar_copia", 0, <<>>, FALSE, None)
    /\ UNCHANGED <<tarefas_estado, heap, relogio>>
    /\ ForaDoRegistro

\* the caller appends to the list the record it holds refers to
MutarLista ==
    /\ copia # None
    /\ Valor(copia)["resultados"] # None
    /\ LET a == Valor(Valor(copia)["resultados"]) IN
        /\ Len(heap[a]) < MaxLista
        /\ heap' = [heap EXCEPT ![a] = Append(@, Produto("intruso"))]
    /\ chamada' = Retorno("mutar_copia", 0, <<>>, FALSE, None)
    /\ UNCHANGED <<tarefas_estado, relogio, copia>>
    /\ ForaDoRegistro

NextRegistro ==
    \/ Tique
    \/ \E id \in TarefaIds : ChamarCriar(id)
    \/ \E id \in TarefaIds : \E kw \in KwargsDoChamador(heap) : ChamarAtualizar(id, kw)
    \/ \E id \in TarefaIds : ChamarObter(id)
    \/ ChamarObterTodas
    \/ ChamarLimpar

SpecRegistro == InitRegistro /\ [][NextRegistro]_vars

-----------------------------------------------------------------------------
(* A registry caller that keeps the records it was given and writes to them *)

\* obter_tarefa(id); the caller keeps the returned record
ObterEGuardar(id) ==
    /\ chamada' = Retorno("obter_tarefa", id, <<>>, id \in DOMAIN tarefas_estado,
                         ObterTarefa(tarefas_estado, id))
    /\ copia' = ObterTarefa(tarefas_estado, id)
    /\ UNCHANGED <<tarefas_estado, heap, relogio>>
    /\ ForaDoRegistro

\* obter_todas_tarefas(); the caller keeps one record of the returned dict
ObterTodasEGuardar(id) ==
    /\ id \in DOMAIN tarefas_estado
    /\ chamada' = Retorno("obter_todas_tarefas", 0, <<>>, FALSE,
                         ObterTodasTarefas(tarefas_estado))
    /\ copia' = Some(ObterTodasTarefas(tarefas_estado)[id])
    /\ UNCHANGED <<tarefas_estado, heap, relogio>>
    /\ ForaDoRegistro

KwargsDeTermino(h) ==
    {KwErro("falha", 0)} \cup {KwConcluido(a, Len(h[a]), 0) : a \in DOMAIN h}

NextCopias ==
    \/ \E id \in TarefaIds : ChamarCriar(id)
    \/ \E id \in TarefaIds : \E kw \in KwargsDeTermino(heap) : ChamarAtualizar(id, kw)
    \/ \E id \in TarefaIds : ObterEGuardar(id)
    \/ \E id \in TarefaIds : ObterTodasEGuardar(id)
    \/ ChamarLimpar
    \/ MutarCampo
    \/ MutarLista

SpecCopias == InitRegistro /\ [][NextCopias]_vars

-----------------------------------------------------------------------------
(* utils/estado.py statement by statement: threads that call the registry     *)
(* operations at the same time, each acquiring and releasing tarefas_lock      *)

Threads == {"t1", "t2"}

\* the frame of a thread: the operation it is in and its arguments, where it is
\* (ocioso: in no operation; adquirir: at the with statement; corpo: inside the
\* with block; apagar: in the for loop of limpar_concluidas; liberar: leaving the
\* with block; depois: at the statement after it), and the locals of a purge
Fio(op, id, kwargs, pc) ==
    [op |-> op, id |-> id, kwargs |-> kwargs, pc |-> pc,
     concluidas |-> {}, pendentes |-> {}]

Ocioso == Fio("nenhuma", 0, <<>>, "ocioso")

\* what the threads pass to atualizar_tarefa
KwargsDosFios == {KwIniciando, KwConcluido(1, 1, 0), KwErro("falha", 0)}

InitTrava ==
    /\ tarefas_estado = <<>>
    /\ heap = << <<Produto("p1")>> >>
    /\ relogio = 0
    /\ chamada = NenhumaChamada
    /\ copia = None
    /\ emitidos = {}
    /\ exec = <<>>
    /\ resposta = None
    /\ carregada = None
    /\ extraido = None
    /\ tarefas_lock = None
    /\ threads = [t \in Threads |-> Ocioso]

ForaDaTrava ==
    UNCHANGED <<heap, relogio, chamada, copia, emitidos, exec, resposta, carregada,
                extraido>>

\* a thread enters one of the five operations
Entrar(t, op, id, kwargs) ==
    /\ threads[t].pc = "ocioso"
    /\ threads' = [threads EXCEPT ![t] = Fio(op, id, kwargs, "adquirir")]
    /\ UNCHANGED <<tarefas_estado, tarefas_lock>>
    /\ ForaDaTrava

\* with tarefas_lock: blocks until the lock is free (lines 20, 35, 42, 50, 56)
Adquirir(t) ==
    /\ threads[t].pc = "adquirir"
    /\ tarefas_lock = None
    /\ tarefas_lock' = Some(t)
    /\ threads' = [threads EXCEPT ![t].pc = "corpo"]
    /\ UNCHANGED tarefas_estado
    /\ ForaDaTrava

\* the statements inside the with block that read or write tarefas_estado; for
\* limpar_concluidas the selection of lines 57-58
Corpo(t) ==
    /\ threads[t].pc = "corpo"
    /\ LET f == threads[t] IN
        CASE f.op = "criar_tarefa" ->
                /\ tarefas_estado' = CriarTarefa(tarefas_estado, f.id, relogio)
                /\ threads' = [threads EXCEPT ![t].pc = "liberar"]
          [] f.op = "atualizar_tarefa" ->
                /\ tarefas_estado' = AtualizarTarefa(tarefas_estado, f.id, f.kwargs)
                /\ threads' = [threads EXCEPT ![t].pc = "liberar"]
          [] f.op \in {"obter_tarefa", "obter_todas_tarefas"} ->
                /\ UNCHANGED tarefas_estado
                /\ threads' = [threads EXCEPT ![t].pc = "liberar"]
          [] OTHER ->
                /\ UNCHANGED tarefas_estado
                /\ threads' = [threads EXCEPT ![t].pc = "apagar",
                                              ![t].concluidas = Concluidas(tarefas_estado),
                                              ![t].pendentes = Concluidas(tarefas_estado)]
    /\ UNCHANGED tarefas_lock
    /\ ForaDaTrava

\* one iteration of the for loop of lines 59-60, or its end. del raises KeyError
\* for a key that is no longer there; the loop then ends by that exception.
Apagar(t) ==
    /\ threads[t].pc = "apagar"
    /\ LET f == threads[t] IN
        IF f.pendentes = {}
        THEN /\ threads' = [threads EXCEPT ![t].pc = "liberar"]
             /\ UNCHANGED tarefas_estado
        ELSE \E tid \in f.pendentes :
                IF tid \in DOMAIN tarefas_estado
                THEN /\ tarefas_estado' =
                            [k \in DOMAIN tarefas_estado \ {tid} |-> tarefas_estado[k]]
                     /\ threads' = [threads EXCEPT ![t].pendentes = @ \ {tid}]
                ELSE /\ threads' = [threads EXCEPT ![t].pc = "liberar"]
                     /\ UNCHANGED tarefas_estado
    /\ UNCHANGED tarefas_lock
    /\ ForaDaTrava

\* the end of the with block; criar_tarefa has one more statement after it
Liberar(t) ==
    /\ threads[t].pc = "liberar"
    /\ tarefas_lock' = IF tarefas_lock = Some(t) THEN None ELSE tarefas_lock
    /\ threads' = [threads EXCEPT ![t] =
            IF @.op = "criar_tarefa" THEN [@ EXCEPT !.pc = "depois"] ELSE Ocioso]
    /\ UNCHANGED tarefas_estado
    /\ ForaDaTrava

\* line 30 of criar_tarefa, after the with block: print(... len(tarefas_estado))
Depois(t) ==
    /\ threads[t].pc = "depois"
    /\ threads' = [threads EXCEPT ![t] = Ocioso]
    /\ UNCHANGED <<tarefas_estado, tarefas_lock>>
    /\ ForaDaTrava

NextTrava ==
    \/ \E t \in Threads : \E id \in TarefaIds : Entrar(t, "criar_tarefa", id, <<>>)
    \/ \E t \in Threads : \E id \in TarefaIds : \E kwargs \in KwargsDosFios :
            Entrar(t, "atualizar_tarefa", id, kwargs)
    \/ \E t \in Threads : \E id \in TarefaIds : Entrar(t, "obter_tarefa", id, <<>>)
    \/ \E t \in Threads : Entrar(t, "obter_todas_tarefas", 0, <<>>)
    \/ \E t \in Threads : Entrar(t, "limpar_concluidas", 0, <<>>)
    \/ \E t \in Threads : Adquirir(t)
    \/ \E t \in Threads : Corpo(t)
    \/ \E t \in Threads : Apagar(t)
    \/ \E t \in Threads : Liberar(t)
    \/ \E t \in Threads : Depois(t)

SpecTrava == InitTrava /\ [][NextTrava]_vars

-----------------------------------------------------------------------------
(* The site the browser is pointed at: listing pages and product pages *)

\* a <li> of a listing page: its class attribute, whether find_element("a") finds
\* an anchor, and the anchor's href
Linha(classe, ancora, href) == [classe |-> classe, ancora |-> ancora, href |-> href]

PaginaDeListagem(secao, linhas, proxima) ==
    [secao |-> secao, linhas |-> linhas, proxima |-> proxima]

UrlsDeListagem == {"u1", "u2", "vazia", "d1", "c1", "c2"}

Paginas ==
    [u \in UrlsDeListagem |->
        CASE u = "u1" ->
                PaginaDeListagem(TRUE,
                    <<Linha("col-xs-6", TRUE, Some("p1")),
                      Linha("next", TRUE, Some("u2")),
                      Linha("col-xs-6", TRUE, Some("p2")),
                      Linha("col-xs-6", TRUE, Some("p6"))>>,
                    Some("u2"))
          [] u = "u2" ->
                PaginaDeListagem(TRUE,
                    <<Linha("col-xs-6", FALSE, None),
                      Linha("col-xs-6", TRUE, Some("p3"))>>,
                    None)
          [] u = "d1" ->
                PaginaDeListagem(TRUE,
                    <<Linha("col-xs-6", TRUE, Some("p4")),
                      Linha("col-xs-6", TRUE, Some("p5"))>>,
                    None)
          [] u = "c1" ->
                PaginaDeListagem(TRUE, <<Linha("col-xs-6", TRUE, Some("p1"))>>,
                                 Some("c2"))
          [] u = "c2" ->
                PaginaDeListagem(TRUE, <<Linha("col-xs-6", TRUE, Some("p3"))>>,
                                 Some("c1"))
          [] OTHER ->
                PaginaDeListagem(FALSE, <<>>, None)]

\* product pages driver.get cannot load
DetalheInacessivel == {"p2"}

\* class attributes a <li> can carry, and for each the words of line 82 that
\* occur in it as a substring (Python's  word in classes  on strings)
ClassesDeLinha ==
    {"", "col-xs-6", "pager", "next", "current", "prev", "col-xs-6 previous"}

Ocorrem(classes) ==
    CASE classes = "pager" -> {"pager"}
      [] classes = "next" -> {"next"}
      [] classes = "current" -> {"current"}
      [] classes = "prev" -> {"prev"}
      [] classes = "col-xs-6 previous" -> {"prev"}
      [] OTHER -> {}

\* line 82: "pager" in classes or "next" in classes or "current" in classes or
\* "prev" in classes
EhPaginacao(classes) ==
    \/ "pager" \in Ocorrem(classes)
    \/ "next" \in Ocorrem(classes)
    \/ "current" \in Ocorrem(classes)
    \/ "prev" \in Ocorrem(classes)

\* faulty variant: an anchor with an empty href contributes the empty string
HrefsDaLinhaComVazio(linha) ==
    IF EhPaginacao(linha.classe) THEN <<>>
    ELSE IF ~linha.ancora THEN <<>>
    ELSE IF linha.href = None THEN <<>>
    ELSE <<Valor(linha.href)>>

\* the hrefs one <li> contributes: none when it is a pagination control, when the
\* anchor lookup raises or when the href is None or empty (if href:)
HrefsDaLinha(linha) ==
    IF EhPaginacao(linha.classe) THEN <<>>
    ELSE IF ~linha.ancora THEN <<>>
    ELSE IF linha.href = None \/ Valor(linha.href) = "" THEN <<>>
    ELSE <<Valor(linha.href)>>

RECURSIVE HrefsDasLinhas(_)
HrefsDasLinhas(linhas) ==
    IF linhas = <<>> THEN <<>>
    ELSE HrefsDaLinha(Head(linhas)) \o HrefsDasLinhas(Tail(linhas))

\* extrair_linhas_da_pagina on the page the driver shows: [] when the section
\* never appears
ExtrairLinhas(pagina) ==
    IF pagina.secao THEN HrefsDasLinhas(pagina.linhas) ELSE <<>>

ExtrairLinhasDaPagina(url) == ExtrairLinhas(Paginas[url])

\* Values of the dict extrair_informacoes builds. A text is the sequence of its
\* pieces (a piece is a character or a run of characters the code never looks
\* into); an int and a text are never equal. Accents are left out of literals.
Texto(pecas) == [str |-> pecas]
Literal(s) == Texto(<<s>>)
Inteiro(n) == [int |-> n]

\* the piece that stands for the pound sign
Libra == "GBP"

\* str.replace(antigo, ''): every occurrence of the piece is removed
Replace(pecas, antigo) == SelectSeq(pecas, LAMBDA c : c # antigo)

\* str.split(): the runs of non-whitespace pieces; in the class attributes below
\* every two words are separated by whitespace, so each run is one piece
Split(pecas) == SelectSeq(pecas, LAMBDA c : c # " ")

\* a product page as the driver finds it: whether driver.get loads it, and for
\* each element the extractor looks up None when find_element raises, else what
\* the element holds
PaginaDeProduto(carrega, h1, paragrafos, preco, rating, estoque, categoria, imagem) ==
    [carrega |-> carrega,        \* driver.get(url) returns
     h1 |-> h1,                  \* text of <h1>
     paragrafos |-> paragrafos,  \* texts of the <p> of article.product_page
     preco |-> preco,            \* text of .price_color, in pieces
     rating |-> rating,          \* class attribute of p.star-rating, in pieces
     estoque |-> estoque,        \* class attribute of the <i> of p.instock.availability
     categoria |-> categoria,    \* text of the third <li> of the breadcrumb
     imagem |-> imagem]          \* src attribute of the <img> of div.item.active

\* faulty variant: an unknown word converts to 5
ConversaoPadraoCinco(rating_texto) ==
    CASE rating_texto = "Zero" -> 0
      [] rating_texto = "One" -> 1
      [] rating_texto = "Two" -> 2
      [] rating_texto = "Three" -> 3
      [] rating_texto = "Four" -> 4
      [] OTHER -> 5

\* conversao.get(rating_texto, 0)
Conversao(rating_texto) ==
    CASE rating_texto = "Zero" -> 0
      [] rating_texto = "One" -> 1
      [] rating_texto = "Two" -> 2
      [] rating_texto = "Three" -> 3
      [] rating_texto = "Four" -> 4
      [] rating_texto = "Five" -> 5
      [] OTHER -> 0

\* extrair_rating: the number of the second class of p.star-rating; None when
\* the element is missing or has fewer than two classes (the exception is caught
\* at line 245 and None returned at line 247)
ExtrairRating(pagina) ==
    IF pagina.rating = None THEN None
    ELSE LET classes_lista == Split(Valor(pagina.rating)) IN
            IF Len(classes_lista) < 2 THEN None
            ELSE Inteiro(Conversao(classes_lista[2]))

\* extrair_informacoes on a page: None when driver.get raises, else the dict. As
\* extrair_rating raises nothing, the except clause of lines 156-157 never runs
\* and "rating" is whatever extrair_rating returned.
ExtrairInformacoesDe(url, pagina) ==
    IF ~pagina.carrega THEN None
    ELSE Some(
        [url |-> url,
         titulo |-> IF pagina.h1 = None THEN Literal("Titulo nao encontrado")
                    ELSE Literal(Valor(pagina.h1)),
         descricao |-> IF pagina.paragrafos = None \/ Len(Valor(pagina.paragrafos)) < 4
                       THEN Literal("Descricao nao encontrado")
                       ELSE Literal(Valor(pagina.paragrafos)[4]),
         preco |-> IF pagina.preco = None THEN Literal("Preco nao encontrado")
                   ELSE Texto(Replace(Valor(pagina.preco), Libra)),
         rating |-> ExtrairRating(pagina),
         disponibilidade |-> IF pagina.estoque = None
                             THEN Literal("Disponibilidade nao encontrada")
                             ELSE IF Valor(pagina.estoque) # "" THEN Inteiro(1)
                             ELSE Inteiro(0),
         categoria |-> IF pagina.categoria = None THEN Literal("Categoria nao encontrada")
                       ELSE Literal(Valor(pagina.categoria)),
         imagem_url |-> IF pagina.imagem = None THEN Literal("Imagem nao encontrada")
                        ELSE IF Valor(pagina.imagem) = None THEN None
                        ELSE Literal(Valor(Valor(pagina.imagem)))])

\* a complete product page
PaginaCompleta ==
    PaginaDeProduto(TRUE, Some("A Light in the Attic"), Some(<<"a", "b", "c", "d">>),
                    Some(<<Libra, "51.77">>), Some(<<"star-rating", " ", "Three">>),
                    Some("icon-ok"), Some("Poetry"), Some(Some("img.jpg")))

\* the product pages of the site: p2 cannot be loaded, p3 has no rating element
PaginasDeProduto ==
    [u \in {"p1", "p2", "p3", "p4", "p5", "p6"} |->
        CASE u \in DetalheInacessivel -> [PaginaCompleta EXCEPT !.carrega = FALSE]
          [] u = "p3" -> [PaginaCompleta EXCEPT !.rating = None]
          [] OTHER -> PaginaCompleta]

\* extrair_informacoes(url)
ExtrairInformacoes(url) == ExtrairInformacoesDe(url, PaginasDeProduto[url])

RECURSIVE ColetarProdutos(_)

\* faulty variant: the first item whose extraction returns None ends the page
ColetarAtePrimeiroNone(hrefs) ==
    LET falhos == {i \in DOMAIN hrefs : ExtrairInformacoes(hrefs[i]) = None}
        n == IF falhos = {} THEN Len(hrefs)
             ELSE (CHOOSE i \in falhos : \A j \in falhos : i <= j) - 1
    IN [i \in 1..n |-> Valor(ExtrairInformacoes(hrefs[i]))]

\* the for loop of processar_todas_paginas: the records appended for one page
ColetarProdutos(hrefs) ==
    IF hrefs = <<>> THEN <<>>
    ELSE ExtrairInformacoes(Head(hrefs)) \o ColetarProdutos(Tail(hrefs))

\* faulty variant: the next link is looked up before the page is reloaded, and
\* the URL of the current page comes back as the next one
ProximaPaginaSempreAMesma(url) == Some(url)

\* verificar_proxima_pagina: the next listing URL, or None
VerificarProximaPagina(url) == Paginas[url].proxima

-----------------------------------------------------------------------------
(* The extractors run alone, each on every page of a bounded family *)

SeqAte(S, n) == UNION {[1..k -> S] : k \in 0..n}

\* <li> elements: plain items with every outcome of the anchor lookup, and
\* pagination controls
LinhasPossiveis ==
    {Linha("col-xs-6", FALSE, None)}
    \cup {Linha("col-xs-6", TRUE, h) : h \in {None, Some(""), Some("p1"), Some("p2")}}
    \cup {Linha(c, TRUE, Some("u2")) : c \in ClassesDeLinha \ {"", "col-xs-6"}}

ListagensPossiveis ==
    {PaginaDeListagem(TRUE, l, None) : l \in SeqAte(LinhasPossiveis, MaxLinhas)}
    \cup {PaginaDeListagem(FALSE, l, None) : l \in SeqAte(LinhasPossiveis, 1)}

\* product pages with each element present or missing
ProdutosPossiveis ==
    {PaginaDeProduto(c, h, p, pr, r, e, cat, im) :
        c \in BOOLEAN,
        h \in {None, Some("A Light in the Attic")},
        p \in {None, Some(<<"a", "b", "c">>), Some(<<"a", "b", "c", "d">>)},
        pr \in {None, Some(<<Libra, "51.77">>)},
        r \in {None, Some(<<"star-rating">>), Some(<<"star-rating", " ", "Three">>)},
        e \in {None, Some(""), Some("icon-ok")},
        cat \in {None, Some("Poetry")},
        im \in {None, Some(None), Some(Some("img.jpg"))}}

\* class attributes of the rating element: words separated by whitespace
PalavrasDeRating ==
    {"star-rating", "Zero", "One", "Two", "Three", "Four", "Five", "three", "Six"}

AtributosDeClasse ==
    {a \in SeqAte(PalavrasDeRating \cup {" "}, MaxPecas) :
        \A i \in 1..(Len(a) - 1) : a[i] = " " \/ a[i + 1] = " "}

RatingsPossiveis ==
    {[PaginaCompleta EXCEPT !.rating = Some(a)] : a \in AtributosDeClasse}

Entrada(tipo, pagina) == [tipo |-> tipo, pagina |-> pagina]

Entradas ==
    {Entrada("listagem", p) : p \in ListagensPossiveis}
    \cup {Entrada("produto", p) : p \in ProdutosPossiveis \cup RatingsPossiveis}

InitExtratores ==
    /\ tarefas_estado = <<>>
    /\ heap = <<>>
    /\ relogio = 0
    /\ chamada = NenhumaChamada
    /\ copia = None
    /\ emitidos = {}
    /\ exec = <<>>
    /\ resposta = None
    /\ carregada \in Entradas
    /\ extraido = None
    /\ tarefas_lock = None
    /\ threads = <<>>

ForaDosExtratores ==
    UNCHANGED <<tarefas_estado, heap, relogio, chamada, copia, emitidos, exec,
                resposta, carregada, tarefas_lock, threads>>

Extraido(op, ret) == [op |-> op, ret |-> ret]

ChamarExtrairLinhas ==
    /\ extraido = None
    /\ carregada.tipo = "listagem"
    /\ extraido' = Some(Extraido("extrair_linhas_da_pagina",
                                 ExtrairLinhas(carregada.pagina)))
    /\ ForaDosExtratores

ChamarExtrairInformacoes ==
    /\ extraido = None
    /\ carregada.tipo = "produto"
    /\ extraido' = Some(Extraido("extrair_informacoes",
                                 ExtrairInformacoesDe("p", carregada.pagina)))
    /\ ForaDosExtratores

ChamarExtrairRating ==
    /\ extraido = None
    /\ carregada.tipo = "produto"
    /\ extraido' = Some(Extraido("extrair_rating", ExtrairRating(carregada.pagina)))
    /\ ForaDosExtratores

NextExtratores ==
    \/ ChamarExtrairLinhas
    \/ ChamarExtrairInformacoes
    \/ ChamarExtrairRating

SpecExtratores == InitExtratores /\ [][NextExtratores]_vars

-----------------------------------------------------------------------------
(* The job runner: executar_scraper_background, one frame per dispatched task *)

\* ConfiguracaoScraper: selectors are fixed by the site above
Config(url_inicial, max_paginas, salvar_excel) ==
    [url_inicial |-> url_inicial, max_paginas |-> max_paginas,
     salvar_excel |-> salvar_excel]

Configs ==
    {Config("u1", None, TRUE), Config("u1", Some(1), FALSE),
     Config("vazia", None, TRUE), Config("u1", Some(0), FALSE)}

\* exceptions; str(e) is the message
Excecao(msg) == [msg |-> msg]
Str(e) == e.msg
ExcSessao == Excecao("session not created")
ExcNavegacao == Excecao("net::ERR_CONNECTION_REFUSED")
ExcQuit == Excecao("quit failed")

Estender(f, k, v) == [x \in DOMAIN f \cup {k} |-> IF x = k THEN v ELSE f[x]]

Quadro(config) ==
    [pc |-> "pendente",
     config |-> config,
     scraper |-> "nenhum",
     fechamentos |-> 0,
     url_atual |-> None,
     pagina_numero |-> 0,
     visitadas |-> <<>>,
     dados |-> 0,
     resultados |-> None,
     exportacao |-> None,
     exc |-> None]

Init ==
    /\ tarefas_estado = <<>>
    /\ heap = <<>>
    /\ relogio = 0
    /\ chamada = NenhumaChamada
    /\ copia = None
    /\ emitidos = {}
    /\ exec = <<>>
    /\ resposta = None
    /\ carregada = None
    /\ extraido = None
    /\ tarefas_lock = None
    /\ threads = <<>>

ForaDoExecutor ==
    UNCHANGED <<relogio, chamada, copia, emitidos, resposta, carregada, extraido,
                tarefas_lock, threads>>

\* uuid.uuid4(): an id never produced before; which one is immaterial, the model
\* takes the least
NovoId(id) == id \notin emitidos /\ \A t \in TarefaIds \ emitidos : id <= t

\* POST /iniciar: a fresh uuid4, criar_tarefa, add_task, the response body
IniciarScraper(id, config) ==
    /\ NovoId(id)
    /\ emitidos' = emitidos \cup {id}
    /\ tarefas_estado' = CriarTarefa(tarefas_estado, id, relogio)
    /\ exec' = Estender(exec, id, Quadro(config))
    /\ resposta' = Some([tarefa_id |-> id, status |-> "iniciado"])
    /\ UNCHANGED <<heap, relogio, chamada, copia, carregada, extraido, tarefas_lock, threads>>

\* lines 404-409: the first update
Comecar(id) ==
    /\ exec[id].pc = "pendente"
    /\ tarefas_estado' = AtualizarTarefa(tarefas_estado, id, KwIniciando)
    /\ exec' = [exec EXCEPT ![id].pc = "criar_scraper"]
    /\ UNCHANGED heap
    /\ ForaDoExecutor

\* faulty variant: the session created before the outer try, so that its
\* exception leaves the runner
CriarScraperForaDoTry(id, falha) ==
    /\ exec[id].pc = "criar_scraper"
    /\ IF falha
       THEN /\ exec' = [exec EXCEPT ![id].pc = "propagou", ![id].exc = Some(ExcSessao)]
            /\ UNCHANGED heap
       ELSE /\ exec' = [exec EXCEPT ![id].pc = "walk",
                                    ![id].scraper = "aberto",
                                    ![id].url_atual = Some(exec[id].config.url_inicial),
                                    ![id].pagina_numero = 1,
                                    ![id].dados = id]
            /\ heap' = Estender(heap, id, <<>>)
    /\ UNCHANGED tarefas_estado
    /\ ForaDoExecutor

\* line 414 and the entry of processar_todas_paginas (lines 326-329)
CriarScraper(id, falha) ==
    /\ exec[id].pc = "criar_scraper"
    /\ IF falha
       THEN /\ exec' = [exec EXCEPT ![id].pc = "except", ![id].exc = Some(ExcSessao)]
            /\ UNCHANGED heap
       ELSE /\ exec' = [exec EXCEPT ![id].pc = "walk",
                                    ![id].scraper = "aberto",
                                    ![id].url_atual = Some(exec[id].config.url_inicial),
                                    ![id].pagina_numero = 1,
                                    ![id].dados = id]
            /\ heap' = Estender(heap, id, <<>>)
    /\ UNCHANGED tarefas_estado
    /\ ForaDoExecutor

\* faulty variant: the cap compared with the pages already processed plus one
\* too many
ContinuaUmaAMais(q) ==
    /\ q.url_atual # None
    /\ q.config.max_paginas = None \/ q.pagina_numero <= Valor(q.config.max_paginas) + 1

\* the while condition of processar_todas_paginas
Continua(q) ==
    /\ q.url_atual # None
    /\ q.config.max_paginas = None \/ q.pagina_numero <= Valor(q.config.max_paginas)

\* faulty variant: a product page that cannot be loaded raises out of the walker
\* instead of being skipped
PaginaWalkerSemGuardaDeDetalhe(id, falha) ==
    /\ exec[id].pc = "walk"
    /\ LET q == exec[id]
           url == Valor(q.url_atual)
           hrefs == ExtrairLinhasDaPagina(url)
       IN IF ~Continua(q)
          THEN /\ falha = "nenhuma"
               /\ exec' = [exec EXCEPT ![id].pc = "exportar",
                                       ![id].resultados = Some(q.dados)]
               /\ UNCHANGED heap
          ELSE IF falha = "acessar"
          THEN /\ exec' = [exec EXCEPT ![id].pc = "finally",
                                       ![id].exc = Some(ExcNavegacao)]
               /\ UNCHANGED heap
          ELSE IF hrefs = <<>>
          THEN /\ falha = "nenhuma"
               /\ exec' = [exec EXCEPT ![id].pc = "exportar",
                                       ![id].visitadas = Append(@, url),
                                       ![id].resultados = Some(q.dados)]
               /\ UNCHANGED heap
          ELSE /\ heap' = [heap EXCEPT ![q.dados] = @ \o ColetarProdutos(hrefs)]
               /\ IF \E i \in DOMAIN hrefs : ExtrairInformacoes(hrefs[i]) = None
                  THEN exec' = [exec EXCEPT ![id].pc = "finally",
                                            ![id].visitadas = Append(@, url),
                                            ![id].exc = Some(Excecao("product page"))]
                  ELSE IF falha = "recarregar"
                  THEN exec' = [exec EXCEPT ![id].pc = "finally",
                                            ![id].visitadas = Append(@, url),
                                            ![id].exc = Some(ExcNavegacao)]
                  ELSE exec' = [exec EXCEPT ![id].url_atual = VerificarProximaPagina(url),
                                            ![id].visitadas = Append(@, url),
                                            ![id].pagina_numero = @ + 1]
    /\ UNCHANGED tarefas_estado
    /\ ForaDoExecutor

\* one evaluation of the while condition and, when it holds, one iteration of the
\* loop; falha names the acessar_pagina call whose driver.get raises. visitadas
\* keeps the listing pages extrair_linhas_da_pagina was run on (line 345).
PaginaWalker(id, falha) ==
    /\ exec[id].pc = "walk"
    /\ LET q == exec[id]
           url == Valor(q.url_atual)
           hrefs == ExtrairLinhasDaPagina(url)
       IN IF ~Continua(q)
          THEN /\ falha = "nenhuma"
               /\ exec' = [exec EXCEPT ![id].pc = "exportar",
                                       ![id].resultados = Some(q.dados)]
               /\ UNCHANGED heap
          ELSE IF falha = "acessar"
          THEN /\ exec' = [exec EXCEPT ![id].pc = "finally",
                                       ![id].exc = Some(ExcNavegacao)]
               /\ UNCHANGED heap
          ELSE IF hrefs = <<>>
          THEN /\ falha = "nenhuma"
               /\ exec' = [exec EXCEPT ![id].pc = "exportar",
                                       ![id].visitadas = Append(@, url),
                                       ![id].resultados = Some(q.dados)]
               /\ UNCHANGED heap
          ELSE /\ heap' = [heap EXCEPT ![q.dados] = @ \o ColetarProdutos(hrefs)]
               /\ IF falha = "recarregar"
                  THEN exec' = [exec EXCEPT ![id].pc = "finally",
                                            ![id].visitadas = Append(@, url),
                                            ![id].exc = Some(ExcNavegacao)]
                  ELSE exec' = [exec EXCEPT ![id].url_atual = VerificarProximaPagina(url),
                                            ![id].visitadas = Append(@, url),
                                            ![id].pagina_numero = @ + 1]
    /\ UNCHANGED tarefas_estado
    /\ ForaDoExecutor

\* faulty variant: a writer that could not write raises instead of returning
\* False
ExportarFalhaLevanta(id, escrito) ==
    /\ exec[id].pc = "exportar"
    /\ LET q == exec[id]
           resultados == heap[Valor(q.resultados)]
           escritor == IF q.config.salvar_excel /\ resultados # <<>>
                       THEN "salvar_em_excel" ELSE "salvar_em_csv"
       IN /\ resultados = <<>> => ~escrito
          /\ exec' = [exec EXCEPT ![id].pc = IF escrito THEN "concluir" ELSE "finally",
                                  ![id].exc = IF escrito THEN @
                                              ELSE Some(Excecao("write failed")),
                                  ![id].exportacao =
                                      Some([escritor |-> escritor, ret |-> escrito])]
    /\ UNCHANGED <<tarefas_estado, heap>>
    /\ ForaDoExecutor

\* lines 425-439: the writer chosen and what it returned. Both writers return
\* False for an empty list and catch every exception of their own.
Exportar(id, escrito) ==
    /\ exec[id].pc = "exportar"
    /\ LET q == exec[id]
           resultados == heap[Valor(q.resultados)]
           escritor == IF q.config.salvar_excel /\ resultados # <<>>
                       THEN "salvar_em_excel" ELSE "salvar_em_csv"
       IN /\ resultados = <<>> => ~escrito
          /\ exec' = [exec EXCEPT ![id].pc = "concluir",
                                  ![id].exportacao =
                                      Some([escritor |-> escritor, ret |-> escrito])]
    /\ UNCHANGED <<tarefas_estado, heap>>
    /\ ForaDoExecutor

\* faulty variant: the run goes on to the finally clause without the update that
\* marks the task concluido
ConcluirSemAtualizar(id) ==
    /\ exec[id].pc = "concluir"
    /\ exec' = [exec EXCEPT ![id].pc = "finally"]
    /\ UNCHANGED <<tarefas_estado, heap>>
    /\ ForaDoExecutor

\* lines 441-449: the update that marks the task concluido
Concluir(id) ==
    /\ exec[id].pc = "concluir"
    /\ LET a == Valor(exec[id].resultados) IN
        tarefas_estado' =
            AtualizarTarefa(tarefas_estado, id, KwConcluido(a, Len(heap[a]), relogio))
    /\ exec' = [exec EXCEPT ![id].pc = "finally"]
    /\ UNCHANGED heap
    /\ ForaDoExecutor

\* faulty variant: the close placed after the try body instead of in a finally
\* clause, so that a pending exception skips it
FecharForaDoFinally(id, falha) ==
    /\ exec[id].pc = "finally"
    /\ LET q == exec[id] IN
        IF q.exc # None
        THEN exec' = [exec EXCEPT ![id].pc = "except"]
        ELSE exec' = [exec EXCEPT
                ![id].fechamentos = @ + 1,
                ![id].scraper = "fechado",
                ![id].exc = IF falha THEN Some(ExcQuit) ELSE @,
                ![id].pc = IF falha THEN "except" ELSE "fim"]
    /\ UNCHANGED <<tarefas_estado, heap>>
    /\ ForaDoExecutor

\* lines 456-457: scraper.fechar() in the finally clause; driver.quit() may raise,
\* and a pending exception of the try body is raised again when it does not
Fechar(id, falha) ==
    /\ exec[id].pc = "finally"
    /\ LET q == exec[id] IN
        exec' = [exec EXCEPT
            ![id].fechamentos = @ + 1,
            ![id].scraper = "fechado",
            ![id].exc = IF falha THEN Some(ExcQuit) ELSE @,
            ![id].pc = IF falha \/ q.exc # None THEN "except" ELSE "fim"]
    /\ UNCHANGED <<tarefas_estado, heap>>
    /\ ForaDoExecutor

\* faulty variant: the handler records the error and leaves the results of the
\* completed walk attached
TratarErroSoMensagem(id) ==
    /\ exec[id].pc = "except"
    /\ tarefas_estado' =
        AtualizarTarefa(tarefas_estado, id,
                        KwErroSemResultados(Str(Valor(exec[id].exc)), relogio))
    /\ exec' = [exec EXCEPT ![id].pc = "fim"]
    /\ UNCHANGED heap
    /\ ForaDoExecutor

\* lines 459-473: the handler of the outer try
TratarErro(id) ==
    /\ exec[id].pc = "except"
    /\ tarefas_estado' =
        AtualizarTarefa(tarefas_estado, id, KwErro(Str(Valor(exec[id].exc)), relogio))
    /\ exec' = [exec EXCEPT ![id].pc = "fim"]
    /\ UNCHANGED heap
    /\ ForaDoExecutor

\* limpar_concluidas called while jobs run
Limpar ==
    /\ tarefas_estado' = LimparConcluidas(tarefas_estado).estado
    /\ UNCHANGED <<heap, relogio, chamada, copia, emitidos, exec, resposta,
                   carregada, extraido, tarefas_lock, threads>>

Next ==
    \/ \E id \in TarefaIds : \E config \in Configs : IniciarScraper(id, config)
    \/ \E id \in DOMAIN exec : Comecar(id)
    \/ \E id \in DOMAIN exec : \E falha \in BOOLEAN : CriarScraper(id, falha)
    \/ \E id \in DOMAIN exec :
        \E falha \in {"nenhuma", "acessar", "recarregar"} : PaginaWalker(id, falha)
    \/ \E id \in DOMAIN exec : \E escrito \in BOOLEAN : Exportar(id, escrito)
    \/ \E id \in DOMAIN exec : Concluir(id)
    \/ \E id \in DOMAIN exec : \E falha \in BOOLEAN : Fechar(id, falha)
    \/ \E id \in DOMAIN exec : TratarErro(id)
    \/ Limpar

Spec == Init /\ [][Next]_vars

-----------------------------------------------------------------------------
(* api/v1/endpoints/scraping.py: GET /status/{id} and GET /resultados/{id} *)

HTTPException(status_code, detail) == [status_code |-> status_code, detail |-> detail]

\* the outcome of a try body: the value returned, or the exception raised
Retornado(v) == [levantou |-> None, ret |-> Some(v)]
Levantado(e) == [levantou |-> Some(e), ret |-> None]

\* len(tarefa["resultados"]) if tarefa["resultados"] else 0
TotalProdutos(tarefa, h) ==
    IF tarefa["resultados"] = None THEN 0 ELSE Len(h[Valor(tarefa["resultados"])])

\* the try body of obter_status (lines 143-161)
CorpoObterStatus(estado, h, tarefa_id, agora) ==
    LET tarefa == ObterTarefa(estado, tarefa_id) IN
        IF tarefa = None
        THEN Levantado(HTTPException(404, "Tarefa nao encontrada"))
        ELSE Retornado([tarefa_id |-> tarefa_id,
                        status |-> Valor(tarefa)["status"],
                        mensagem |-> Valor(tarefa)["mensagem"],
                        progresso |-> Valor(tarefa)["progresso"],
                        total_produtos |-> TotalProdutos(Valor(tarefa), h),
                        erro |-> Valor(tarefa)["erro"],
                        timestamp |-> agora])

\* the try body of obter_resultados (lines 205-225)
CorpoObterResultados(estado, h, tarefa_id, agora) ==
    LET tarefa == ObterTarefa(estado, tarefa_id) IN
        IF tarefa = None
        THEN Levantado(HTTPException(404, "Tarefa nao encontrada"))
        ELSE IF Valor(tarefa)["status"] # "concluido"
        THEN Levantado(HTTPException(400, [fmt |-> "Tarefa em {status}",
                                           status |-> Valor(tarefa)["status"]]))
        ELSE Retornado([tarefa_id |-> tarefa_id,
                        total_produtos |-> Len(h[Valor(Valor(tarefa)["resultados"])]),
                        timestamp |-> agora])

\* except Exception as e: raise HTTPException(500, f"...{str(e)}"). HTTPException
\* is a subclass of Exception, so the handler also takes the exceptions the try
\* body raises itself.
ComExceptException(corpo, fmt) ==
    IF corpo.levantou # None
    THEN HTTPException(500, [fmt |-> fmt, e |-> Valor(corpo.levantou)])
    ELSE [status_code |-> 200, detail |-> "", body |-> Valor(corpo.ret)]

Resposta(endpoint, tarefa_id, r) ==
    [endpoint |-> endpoint, tarefa_id |-> tarefa_id, status_code |-> r.status_code,
     conteudo |-> r]

ForaDosEndpoints ==
    UNCHANGED <<tarefas_estado, heap, relogio, chamada, copia, emitidos, exec,
                carregada, extraido, tarefas_lock, threads>>

ObterStatus(tarefa_id) ==
    /\ resposta' = Some(Resposta("obter_status", tarefa_id,
            ComExceptException(CorpoObterStatus(tarefas_estado, heap, tarefa_id, relogio),
                               "Erro ao consultar status: {e}")))
    /\ ForaDosEndpoints

ObterResultados(tarefa_id) ==
    /\ resposta' = Some(Resposta("obter_resultados", tarefa_id,
            ComExceptException(
                CorpoObterResultados(tarefas_estado, heap, tarefa_id, relogio),
                "Erro ao consultar resultados: {e}")))
    /\ ForaDosEndpoints

\* the summary of one task in the listing (lines 294-301)
ResumoDaTarefa(info, h) ==
    [status |-> info["status"],
     progresso |-> info["progresso"],
     mensagem |-> info["mensagem"],
     total_produtos |-> TotalProdutos(info, h),
     erro |-> info["erro"],
     timestamp_criacao |-> info["timestamp_criacao"]]

\* sum(1 for t in tarefas_resumo.values() if t["status"] == status)
Contar(tarefas_resumo, status) ==
    Cardinality({tid \in DOMAIN tarefas_resumo : tarefas_resumo[tid].status = status})

\* the try body of listar_tarefas (lines 273-316); the counter em_progresso
\* compares the status with "progresso"
CorpoListarTarefas(estado, h, agora) ==
    LET todas_tarefas == ObterTodasTarefas(estado)
        tarefas_resumo ==
            [tid \in DOMAIN todas_tarefas |-> ResumoDaTarefa(todas_tarefas[tid], h)]
    IN IF DOMAIN todas_tarefas = {}
       THEN Retornado([total_tarefas |-> 0,
                       mensagem |-> "Nenhuma tarefa registrada",
                       resumo |-> [em_progresso |-> 0, concluido |-> 0,
                                   erro |-> 0, aguardando |-> 0],
                       tarefas |-> <<>>,
                       timestamp |-> agora])
       ELSE Retornado([total_tarefas |-> Cardinality(DOMAIN todas_tarefas),
                       resumo |-> [em_progresso |-> Contar(tarefas_resumo, "progresso"),
                                   concluido |-> Contar(tarefas_resumo, "concluido"),
                                   erro |-> Contar(tarefas_resumo, "erro"),
                                   aguardando |-> Contar(tarefas_resumo, "aguardando")],
                       tarefas |-> tarefas_resumo,
                       timestamp |-> agora])

\* GET /listar-tarefas
ListarTarefas ==
    /\ resposta' = Some(Resposta("listar_tarefas", 0,
            ComExceptException(CorpoListarTarefas(tarefas_estado, heap, relogio),
                               "Erro ao listar tarefas: {e}")))
    /\ ForaDosEndpoints

\* the jobs of Spec, and the listing requested at any moment
NextListagem ==
    \/ Next
    \/ ListarTarefas

SpecListagem == Init /\ [][NextListagem]_vars

-----------------------------------------------------------------------------
(* One job followed through every configuration of start URL, page cap and *)
(* export format                                                           *)

\* max_paginas: Optional[int] = None
Caps == {None} \cup {Some(n) : n \in 0..MaxCap}

\* the walk of the cyclic listing c1 -> c2 -> c1 ends only by its page cap, so it
\* is configured with one
ConfigsDaTarefa ==
    {Config(u, m, x) : u \in {"u1", "vazia", "d1"}, m \in Caps, x \in BOOLEAN}
    \cup {Config("c1", m, x) : m \in Caps \ {None}, x \in BOOLEAN}

NextTarefa ==
    \/ \E config \in ConfigsDaTarefa : emitidos = {} /\ IniciarScraper(1, config)
    \/ \E id \in DOMAIN exec : Comecar(id)
    \/ \E id \in DOMAIN exec : \E falha \in BOOLEAN : CriarScraper(id, falha)
    \/ \E id \in DOMAIN exec :
        \E falha \in {"nenhuma", "acessar", "recarregar"} : PaginaWalker(id, falha)
    \/ \E id \in DOMAIN exec : \E escrito \in BOOLEAN : Exportar(id, escrito)
    \/ \E id \in DOMAIN exec : Concluir(id)
    \/ \E id \in DOMAIN exec : \E falha \in BOOLEAN : Fechar(id, falha)
    \/ \E id \in DOMAIN exec : TratarErro(id)
    \/ Limpar
    \/ \E tarefa_id \in TarefaIds : ObterStatus(tarefa_id)
    \/ \E tarefa_id \in TarefaIds : ObterResultados(tarefa_id)

SpecTarefa == Init /\ [][NextTarefa]_vars

-----------------------------------------------------------------------------
(* Properties of the registry operations, checked under SpecRegistro *)

\* a step in which the registry operation op returned to its caller
Retornou(op) == relogio' = relogio /\ chamada'.op = op

\* C3 (as stated): criar_tarefa on an id that is already a key fails with a
\* duplicate-task error and leaves the existing record unchanged.
C3_CriarDuplicadaFalha ==
    [][\A id \in TarefaIds :
        (Retornou("criar_tarefa") /\ chamada'.id = id /\ id \in DOMAIN tarefas_estado)
        => /\ chamada'.levantou # None
           /\ tarefas_estado' = tarefas_estado]_vars

\* C3 (amended): criar_tarefa on an id that is already a key raises nothing and
\* rebinds the id to a new waiting record (progress 0, no results, no error, no
\* completion timestamp, creation timestamp now); the other records are unchanged.
C3_CriarDuplicadaSubstitui ==
    [][\A id \in TarefaIds :
        (Retornou("criar_tarefa") /\ chamada'.id = id /\ id \in DOMAIN tarefas_estado)
        => /\ chamada'.levantou = None
           /\ DOMAIN tarefas_estado' = DOMAIN tarefas_estado
           /\ tarefas_estado'[id]["status"] = "aguardando"
           /\ tarefas_estado'[id]["progresso"] = 0
           /\ tarefas_estado'[id]["resultados"] = None
           /\ tarefas_estado'[id]["erro"] = None
           /\ tarefas_estado'[id]["timestamp_conclusao"] = None
           /\ tarefas_estado'[id]["timestamp_criacao"] = Some(relogio)
           /\ \A t \in DOMAIN tarefas_estado \ {id} :
                tarefas_estado'[t] = tarefas_estado[t]]_vars

\* a duplicate create has just replaced a record that had finished earlier
C3_Witness ==
    /\ chamada.op = "criar_tarefa"
    /\ chamada.existia
    /\ relogio = 1
    /\ tarefas_estado[chamada.id]["timestamp_criacao"] = Some(1)

\* C5: right after criar_tarefa(id) returns for an id that was not a key,
\* obter_tarefa(id) returns a record with status aguardando, progress 0 and no
\* results, error or completion timestamp.
C5_CriadaEstaAguardando ==
    (chamada.op = "criar_tarefa" /\ ~chamada.existia)
    => LET r == ObterTarefa(tarefas_estado, chamada.id) IN
        /\ r # None
        /\ Valor(r)["status"] = "aguardando"
        /\ Valor(r)["progresso"] = 0
        /\ Valor(r)["resultados"] = None
        /\ Valor(r)["erro"] = None
        /\ Valor(r)["timestamp_conclusao"] = None

\* a second id has just been created beside a record that is no longer waiting
C5_Witness ==
    /\ chamada.op = "criar_tarefa"
    /\ ~chamada.existia
    /\ \E t \in DOMAIN tarefas_estado :
        t # chamada.id /\ tarefas_estado[t]["status"] = "concluido"

\* C6: atualizar_tarefa(id, F) on a present id followed by obter_tarefa(id) gives
\* exactly the values of F for the keys of F and the earlier values for the other
\* keys, and the records of the other ids are unchanged.
C6_AtualizarMescla ==
    [][\A id \in TarefaIds :
        (Retornou("atualizar_tarefa") /\ chamada'.id = id /\ id \in DOMAIN tarefas_estado)
        => LET F == chamada'.kwargs
               antes == Valor(ObterTarefa(tarefas_estado, id))
               depois == ObterTarefa(tarefas_estado', id)
           IN /\ depois # None
              /\ DOMAIN Valor(depois) = DOMAIN antes \cup DOMAIN F
              /\ \A k \in DOMAIN F : Valor(depois)[k] = F[k]
              /\ \A k \in DOMAIN antes \ DOMAIN F : Valor(depois)[k] = antes[k]
              /\ DOMAIN tarefas_estado' = DOMAIN tarefas_estado
              /\ \A t \in DOMAIN tarefas_estado \ {id} :
                    ObterTarefa(tarefas_estado', t) = ObterTarefa(tarefas_estado, t)]_vars

\* a three-key update has been merged into a finished record, whose results and
\* completion timestamp are kept, beside another record
C6_Witness ==
    /\ chamada.op = "atualizar_tarefa"
    /\ chamada.existia
    /\ chamada.kwargs = KwIniciando
    /\ tarefas_estado[chamada.id]["status"] = "em_progresso"
    /\ tarefas_estado[chamada.id]["resultados"] # None
    /\ tarefas_estado[chamada.id]["timestamp_conclusao"] # None
    /\ DOMAIN tarefas_estado # {chamada.id}

\* C7: atualizar_tarefa on an id that is not a key raises nothing, creates no
\* record and changes no record, so obter_tarefa(id) still returns None.
C7_AtualizarAusenteNaoFazNada ==
    [][\A id \in TarefaIds :
        (Retornou("atualizar_tarefa") /\ chamada'.id = id /\ id \notin DOMAIN tarefas_estado)
        => /\ chamada'.levantou = None
           /\ tarefas_estado' = tarefas_estado
           /\ ObterTarefa(tarefas_estado', id) = None]_vars

\* an update with fields has just returned for an id that is not a key, beside a record
C7_Witness ==
    /\ chamada.op = "atualizar_tarefa"
    /\ ~chamada.existia
    /\ chamada.kwargs # <<>>
    /\ chamada.id \notin DOMAIN tarefas_estado
    /\ DOMAIN tarefas_estado # {}

\* C8: limpar_concluidas removes exactly the records whose status is concluido,
\* leaves every other record present and unchanged, and returns the number removed.
C8_LimparSoConcluidas ==
    [][Retornou("limpar_concluidas")
        => /\ DOMAIN tarefas_estado' \subseteq DOMAIN tarefas_estado
           /\ \A t \in DOMAIN tarefas_estado' : tarefas_estado'[t]["status"] # "concluido"
           /\ \A t \in DOMAIN tarefas_estado :
                tarefas_estado[t]["status"] # "concluido"
                => t \in DOMAIN tarefas_estado' /\ tarefas_estado'[t] = tarefas_estado[t]
           /\ chamada'.ret = Cardinality(DOMAIN tarefas_estado \ DOMAIN tarefas_estado')]_vars

\* a purge has removed one record and left a failed one
C8_Witness ==
    /\ chamada.op = "limpar_concluidas"
    /\ chamada.ret = 1
    /\ \E t \in DOMAIN tarefas_estado : tarefas_estado[t]["status"] = "erro"

-----------------------------------------------------------------------------
(* Properties of the returned copies, checked under SpecCopias *)

TodosVistos(estado, h) == [t \in DOMAIN estado |-> Visto(ObterTodasTarefas(estado)[t], h)]

\* C4: obter_tarefa and obter_todas_tarefas return deep copies: nothing a caller
\* writes to a returned record, its nested results list included, changes what a
\* later obter_tarefa or obter_todas_tarefas returns, and no later registry
\* operation changes what a caller already holds.
C4_CopiasProfundas ==
    [][/\ Retornou("mutar_copia")
          => /\ \A id \in TarefaIds :
                    VistoOpt(ObterTarefa(tarefas_estado', id), heap')
                    = VistoOpt(ObterTarefa(tarefas_estado, id), heap)
             /\ TodosVistos(tarefas_estado', heap') = TodosVistos(tarefas_estado, heap)
       /\ (Retornou("criar_tarefa") \/ Retornou("atualizar_tarefa")
           \/ Retornou("limpar_concluidas"))
          => VistoOpt(copia', heap') = VistoOpt(copia, heap)]_vars

-----------------------------------------------------------------------------
(* Properties of the job runner and the registry together, checked under Spec *)

TransicoesDeStatus ==
    {<<"aguardando", "em_progresso">>, <<"em_progresso", "concluido">>,
     <<"aguardando", "erro">>, <<"em_progresso", "erro">>}

\* C1: the status of a record only moves aguardando -> em_progresso -> concluido
\* or aguardando/em_progresso -> erro; once it is concluido or erro no later
\* operation changes it, a failing close of the browser included.
C1_StatusTerminalEstavel ==
    [][\A id \in DOMAIN tarefas_estado \cap DOMAIN tarefas_estado' :
        \/ tarefas_estado'[id]["status"] = tarefas_estado[id]["status"]
        \/ <<tarefas_estado[id]["status"], tarefas_estado'[id]["status"]>>
            \in TransicoesDeStatus]_vars

\* what obter_tarefa(id) shows as results: None, or the list's contents
ResultadosVistos(estado, h, id) ==
    Visto(Valor(ObterTarefa(estado, id)), h)["resultados"]

\* C2: once obter_tarefa(id) has returned results that are not None, every later
\* obter_tarefa(id) of the record returns the same results: no later update
\* replaces them or resets them to None.
C2_ResultadosImutaveis ==
    [][\A id \in DOMAIN tarefas_estado \cap DOMAIN tarefas_estado' :
        ResultadosVistos(tarefas_estado, heap, id) # None
        => ResultadosVistos(tarefas_estado', heap', id)
            = ResultadosVistos(tarefas_estado, heap, id)]_vars

\* C9: when processar_todas_paginas returned a list R without raising, the runner
\* leaves the record concluido with progress 100, results R, no error and a
\* completion timestamp.
C9_WalkerRetornouEntaoConcluido ==
    \A id \in DOMAIN exec \cap DOMAIN tarefas_estado :
        (exec[id].pc = "fim" /\ exec[id].resultados # None)
        => /\ tarefas_estado[id]["status"] = "concluido"
           /\ tarefas_estado[id]["progresso"] = 100
           /\ ResultadosVistos(tarefas_estado, heap, id)
                = Some(heap[Valor(exec[id].resultados)])
           /\ tarefas_estado[id]["erro"] = None
           /\ tarefas_estado[id]["timestamp_conclusao"] # None

\* C10: when an exception was raised while the job ran (creating the session,
\* walking the pages or closing the session), the runner leaves the record, when
\* it is still in the registry, with status erro, the error field equal to the
\* exception's message and no results.
C10_ExcecaoEntaoErro ==
    \A id \in DOMAIN exec \cap DOMAIN tarefas_estado :
        (exec[id].pc = "fim" /\ exec[id].exc # None)
        => /\ tarefas_estado[id]["status"] = "erro"
           /\ tarefas_estado[id]["erro"] = Some(Str(Valor(exec[id].exc)))
           /\ tarefas_estado[id]["resultados"] = None

\* a run whose walk returned products and whose close then raised has ended, and
\* its record is still in the registry
C10_Witness ==
    \E id \in DOMAIN exec \cap DOMAIN tarefas_estado :
        /\ exec[id].pc = "fim"
        /\ exec[id].exc = Some(ExcQuit)
        /\ exec[id].resultados # None
        /\ heap[Valor(exec[id].resultados)] # <<>>
        /\ tarefas_estado[id]["status"] = "erro"

\* C11: in every run of the runner in which a browser session was created,
\* fechar() is called exactly once before the runner returns, whether the walk
\* returned or raised; it is never called when no session was created, and never
\* twice.
C11_SessaoFechadaUmaVez ==
    \A id \in DOMAIN exec :
        LET q == exec[id] IN
            /\ q.fechamentos <= 1
            /\ q.scraper = "nenhum" => q.fechamentos = 0
            /\ q.scraper = "aberto" => q.fechamentos = 0 /\ q.pc # "fim"
            /\ q.scraper = "fechado" => q.fechamentos = 1
            /\ (q.pc \in {"except", "fim"} /\ q.exc # Some(ExcSessao))
                => q.scraper = "fechado"

\* a run whose walk raised has returned, and its session was closed once
C11_Witness ==
    \E id \in DOMAIN exec :
        /\ exec[id].pc = "fim"
        /\ exec[id].exc = Some(ExcNavegacao)
        /\ exec[id].scraper = "fechado"
        /\ exec[id].fechamentos = 1

-----------------------------------------------------------------------------
(* Several jobs submitted one after another: how they are dispatched *)

\* executor = ThreadPoolExecutor(max_workers=3); no statement of src/ submits to it
max_workers == 3

\* the jobs differ in nothing the dispatch depends on: a walk capped at no page
ConfigDaFila == Config("u1", Some(0), FALSE)

\* iniciar_scraper hands the job to background_tasks.add_task (lines 82-86), which
\* runs it after the response with no limit set in src/ on the jobs running at
\* once: a pending job can begin whatever the number of jobs that run
NextFila ==
    \/ \E id \in 1..MaxSubmissoes : IniciarScraper(id, ConfigDaFila)
    \/ \E id \in DOMAIN exec : Comecar(id)
    \/ \E id \in DOMAIN exec : \E falha \in BOOLEAN : CriarScraper(id, falha)
    \/ \E id \in DOMAIN exec : PaginaWalker(id, "nenhuma")
    \/ \E id \in DOMAIN exec : Exportar(id, FALSE)
    \/ \E id \in DOMAIN exec : Concluir(id)
    \/ \E id \in DOMAIN exec : \E falha \in BOOLEAN : Fechar(id, falha)
    \/ \E id \in DOMAIN exec : TratarErro(id)

SpecFila == Init /\ [][NextFila]_vars

\* the jobs whose runner has begun and not returned; their records have status
\* em_progresso until the last update of the run
Executando == {id \in DOMAIN exec : exec[id].pc \notin {"pendente", "fim"}}

\* C19: jobs run through a pool of 3 workers: at most 3 jobs are executing at
\* the same time, the others wait for a free slot.
C19_NoMaximoTresExecutando ==
    /\ Cardinality(Executando) <= max_workers
    /\ Cardinality({id \in DOMAIN tarefas_estado :
                        tarefas_estado[id]["status"] = "em_progresso"}) <= max_workers

-----------------------------------------------------------------------------
(* Properties of the pagination walker, checked under SpecTarefa *)

\* the walk of processar_todas_paginas has ended, by return or by exception
WalkerTerminou(q) == q.scraper # "nenhum" /\ q.pc # "walk"

WalkerRetornou(q) == q.resultados # None

\* C12: when the listing container of the start URL never appears, the walker
\* returns an empty list without raising and the runner leaves the task
\* concluido, not erro, with results equal to the empty list, whether
\* salvar_excel is set or not.
C12_ContainerAusenteConcluido ==
    \A id \in DOMAIN exec :
        LET q == exec[id] IN
            (~Paginas[q.config.url_inicial].secao /\ q.visitadas # <<>>)
            => /\ WalkerRetornou(q)
               /\ heap[Valor(q.resultados)] = <<>>
               /\ (q.pc = "fim" /\ id \in DOMAIN tarefas_estado)
                    => /\ tarefas_estado[id]["status"] = "concluido"
                       /\ ResultadosVistos(tarefas_estado, heap, id) = Some(<<>>)

\* C13: with a page cap N the walker runs extrair_linhas_da_pagina on at most N
\* listing pages, however many next links the site offers, and once N pages are
\* done the loop variable is past the cap, so the walker returns; with N = 0 it
\* visits no page and returns an empty list.
C13_LimiteDePaginas ==
    \A id \in DOMAIN exec :
        LET q == exec[id]
            m == q.config.max_paginas
        IN m # None
           => /\ Len(q.visitadas) <= Valor(m)
              /\ Cardinality({q.visitadas[i] : i \in DOMAIN q.visitadas}) <= Valor(m)
              /\ (q.pc = "walk" /\ Len(q.visitadas) = Valor(m))
                    => q.pagina_numero > Valor(m)
              /\ (Valor(m) = 0 /\ WalkerTerminou(q))
                    => /\ q.visitadas = <<>>
                       /\ WalkerRetornou(q)
                       /\ heap[Valor(q.resultados)] = <<>>

\* the walk of the cyclic listing returned after its cap of two pages although
\* the second page has a next link
C13_Witness ==
    \E id \in DOMAIN exec :
        /\ exec[id].config.max_paginas = Some(2)
        /\ WalkerRetornou(exec[id])
        /\ exec[id].visitadas = <<"c1", "c2">>
        /\ exec[id].url_atual = Some("c1")
        /\ Len(heap[Valor(exec[id].resultados)]) = 2

\* the records of the items of one listing page whose detail extraction returns a
\* record, in document order
RegistrosDaPagina(url) ==
    LET hrefs == ExtrairLinhasDaPagina(url)
        bons == SelectSeq(hrefs, LAMBDA h : ExtrairInformacoes(h) # None)
    IN [i \in 1..Len(bons) |-> Valor(ExtrairInformacoes(bons[i]))]

RECURSIVE RegistrosEsperados(_)
RegistrosEsperados(urls) ==
    IF urls = <<>> THEN <<>>
    ELSE RegistrosDaPagina(Head(urls)) \o RegistrosEsperados(Tail(urls))

\* C14: the list the walker returns holds exactly one record for each item whose
\* detail extraction returned a record, page after page in the order visited and
\* in document order within a page; an item whose extraction returns None is
\* left out and the items after it are still processed.
C14_UmRegistroPorItem ==
    \A id \in DOMAIN exec :
        WalkerRetornou(exec[id])
        => heap[Valor(exec[id].resultados)] = RegistrosEsperados(exec[id].visitadas)

\* a walk returned over two pages: the second item of the first page could not be
\* loaded, and the items before and after it, on that page and the next, are in
\* the list
C14_Witness ==
    \E id \in DOMAIN exec :
        /\ WalkerRetornou(exec[id])
        /\ exec[id].visitadas = <<"u1", "u2">>
        /\ ExtrairInformacoes("p2") = None
        /\ heap[Valor(exec[id].resultados)]
            = <<Valor(ExtrairInformacoes("p1")), Valor(ExtrairInformacoes("p6")),
                Valor(ExtrairInformacoes("p3"))>>

\* C15 as stated: the walker never ends by raising; whatever the browser does,
\* a walk that has ended has returned its list.
C15_WalkerNuncaLevanta ==
    \A id \in DOMAIN exec :
        WalkerTerminou(exec[id]) => WalkerRetornou(exec[id])

\* C15 as the code has it: a walk that has ended has either returned the list of
\* the records of the pages it visited (an absent section, an item without anchor
\* and a product page that cannot be loaded are passed over), or it has raised
\* the exception of a driver.get of a listing page, which acessar_pagina does
\* not catch, and returned nothing.
C15_WalkerLevantaSoNaNavegacao ==
    \A id \in DOMAIN exec :
        LET q == exec[id] IN
            WalkerTerminou(q)
            => \/ /\ WalkerRetornou(q)
                  /\ q.exc \in {None, Some(ExcQuit)}
                  /\ Len(heap[Valor(q.resultados)])
                        = Len(RegistrosEsperados(q.visitadas))
               \/ /\ ~WalkerRetornou(q)
                  /\ q.exc \in {Some(ExcNavegacao), Some(ExcQuit)}
                  /\ q.pc = "finally" => q.exc = Some(ExcNavegacao)
                  /\ q.exportacao = None

\* the reload of a listing page before the next-page step raised after records
\* had been collected: the walk ended by that exception and returned no list
C15_Witness ==
    \E id \in DOMAIN exec :
        /\ exec[id].pc = "finally"
        /\ exec[id].exc = Some(ExcNavegacao)
        /\ ~WalkerRetornou(exec[id])
        /\ exec[id].visitadas # <<>>
        /\ heap[exec[id].dados] # <<>>

-----------------------------------------------------------------------------
(* Properties of the extractors, checked under SpecExtratores *)

\* a product page that loads and has none of the elements looked up
SemElementos == PaginaDeProduto(TRUE, None, None, None, None, None, None, None)

\* C16: extrair_informacoes raises nothing, and on a product page that loads but
\* has none of the elements it returns a dict in which every extracted field,
\* rating included, is that field's "not found" text.
C16_SemElementosTudoSentinela ==
    (extraido # None /\ Valor(extraido).op = "extrair_informacoes"
        /\ carregada.pagina = SemElementos)
    => Valor(extraido).ret = Some(
        [url |-> "p",
         titulo |-> Literal("Titulo nao encontrado"),
         descricao |-> Literal("Descricao nao encontrado"),
         preco |-> Literal("Preco nao encontrado"),
         rating |-> Literal("Rating nao encontrado"),
         disponibilidade |-> Literal("Disponibilidade nao encontrada"),
         categoria |-> Literal("Categoria nao encontrada"),
         imagem_url |-> Literal("Imagem nao encontrada")])

\* the documented conversion of rating words
NomesDeRating == [Zero |-> 0, One |-> 1, Two |-> 2, Three |-> 3, Four |-> 4, Five |-> 5]

\* C17: when the rating element carries a second class token, extrair_rating
\* returns the integer Zero->0, One->1, Two->2, Three->3, Four->4, Five->5 of that
\* token, and 0 for every other token; the result is an integer in 0..5.
C17_RatingConvertido ==
    (extraido # None /\ Valor(extraido).op = "extrair_rating"
        /\ carregada.pagina.rating # None)
    => LET palavras == Split(Valor(carregada.pagina.rating))
           ret == Valor(extraido).ret
       IN Len(palavras) >= 2
          => /\ ret = Inteiro(IF palavras[2] \in DOMAIN NomesDeRating
                              THEN NomesDeRating[palavras[2]] ELSE 0)
             /\ ret.int \in 0..5

\* extrair_rating returned 0 for a second token that is a rating word in the
\* wrong case
C17_Witness ==
    /\ extraido # None
    /\ Valor(extraido).op = "extrair_rating"
    /\ Valor(extraido).ret = Inteiro(0)
    /\ carregada.pagina.rating = Some(<<"star-rating", " ", "three">>)

\* an item the page extractor keeps: no pagination word occurs in its class
\* attribute, its anchor is found and the anchor's href is not empty
Sobrevive(linha) ==
    /\ \A w \in {"pager", "next", "current", "prev"} : w \notin Ocorrem(linha.classe)
    /\ linha.ancora
    /\ linha.href # None
    /\ Valor(linha.href) # ""

HrefsEsperados(pagina) ==
    IF ~pagina.secao THEN <<>>
    ELSE LET s == SelectSeq(pagina.linhas, Sobrevive)
         IN [i \in 1..Len(s) |-> Valor(s[i].href)]

\* C18: on every listing page extrair_linhas_da_pagina returns the hrefs of
\* exactly the items whose class attribute contains none of pager, next, current,
\* prev and whose anchor has a non-empty href, in document order; an item whose
\* anchor lookup raises is skipped and the others are kept; the result is the
\* empty list when no item is kept.
C18_HrefsFiltrados ==
    (extraido # None /\ Valor(extraido).op = "extrair_linhas_da_pagina")
    => Valor(extraido).ret = HrefsEsperados(carregada.pagina)

\* the extractor returned the one plain item of a page that also has an item
\* without anchor and a pagination control
C18_Witness ==
    /\ extraido # None
    /\ Valor(extraido).op = "extrair_linhas_da_pagina"
    /\ Valor(extraido).ret = <<"p1">>
    /\ carregada.pagina.linhas
        = <<Linha("col-xs-6", FALSE, None),
            Linha("col-xs-6 previous", TRUE, Some("u2")),
            Linha("col-xs-6", TRUE, Some("p1"))>>

-----------------------------------------------------------------------------
(* Properties of the status and results endpoints, checked under SpecTarefa *)

\* a step in which one of the two endpoints answered
Respondeu ==
    /\ resposta' # resposta
    /\ "endpoint" \in DOMAIN Valor(resposta')

\* C20: the status and results endpoints answer 404 for a task id that is not in
\* the registry and the results endpoint answers 400 for a task that is not
\* concluido; neither answers 500 for these requests.
C20_CodigosDocumentados ==
    [][Respondeu =>
        LET r == Valor(resposta') IN
            /\ r.tarefa_id \notin DOMAIN tarefas_estado => r.status_code = 404
            /\ (r.endpoint = "obter_resultados"
                    /\ r.tarefa_id \in DOMAIN tarefas_estado
                    /\ tarefas_estado[r.tarefa_id]["status"] # "concluido")
                => r.status_code = 400
            /\ r.status_code # 500]_vars

-----------------------------------------------------------------------------
(* Properties of the lock discipline of the registry, checked under SpecTrava *)

\* a step in which thread t executes a statement that reads or writes
\* tarefas_estado: a statement of a with block or line 30 of criar_tarefa
TocaNoMapa(t) ==
    /\ threads[t].pc \in {"corpo", "apagar", "depois"}
    /\ threads'[t] # threads[t]

\* C21: every read and every write of tarefas_estado by the five registry
\* operations happens while the calling thread holds tarefas_lock.
C21_AcessoComTrava ==
    [][\A t \in Threads : TocaNoMapa(t) => tarefas_lock = Some(t)]_vars

\* a purge that has deleted some of the records it selected and not yet the rest
PurgaPelaMetade(f) ==
    /\ f.op = "limpar_concluidas"
    /\ f.pc = "apagar"
    /\ f.pendentes # {}
    /\ f.pendentes # f.concluidas

\* C22: limpar_concluidas is atomic with respect to the other registry
\* operations: no statement of another thread reads or writes tarefas_estado
\* while a purge has removed only some of the records it selected, and every
\* record deleted has status concluido at the moment it is deleted.
C22_PurgaAtomica ==
    [][/\ \A t \in Threads :
            TocaNoMapa(t) => \A u \in Threads \ {t} : ~PurgaPelaMetade(threads[u])
       /\ \A tid \in DOMAIN tarefas_estado \ DOMAIN tarefas_estado' :
            tarefas_estado[tid]["status"] = "concluido"]_vars

-----------------------------------------------------------------------------
(* Properties of one run of the job runner, checked under SpecTarefa *)

-----------------------------------------------------------------------------
(* One job under a scheduler that keeps running it, the walk of the cyclic *)
(* listing without a page cap included                                     *)

\* iterations of the while loop followed in a walk that has no other end
MaxPassos == 4

\* the chain of next links that starts at url reaches a page without a next
\* link before it comes back to a page of the chain
RECURSIVE CadeiaAcaba(_, _)
CadeiaAcaba(url, vistas) ==
    IF url \in vistas
    THEN FALSE
    ELSE IF Paginas[url].proxima = None
    THEN TRUE
    ELSE CadeiaAcaba(Valor(Paginas[url].proxima), vistas \cup {url})

CadeiaFinita(url) == CadeiaAcaba(url, {})

ConfigsDaCaminhada ==
    ConfigsDaTarefa \cup {Config("c1", None, x) : x \in BOOLEAN}

\* the next step of the runner of task id
Passo(id) ==
    /\ id \in DOMAIN exec
    /\ \/ Comecar(id)
       \/ \E falha \in BOOLEAN : CriarScraper(id, falha)
       \/ \E falha \in {"nenhuma", "acessar", "recarregar"} :
            exec[id].pagina_numero <= MaxPassos /\ PaginaWalker(id, falha)
       \/ \E escrito \in BOOLEAN : Exportar(id, escrito)
       \/ Concluir(id)
       \/ \E falha \in BOOLEAN : Fechar(id, falha)
       \/ TratarErro(id)

NextJusta ==
    \/ \E config \in ConfigsDaCaminhada : emitidos = {} /\ IniciarScraper(1, config)
    \/ Passo(1)
    \/ Limpar

\* the background task of a submitted job is started and, once started, runs
\* statement after statement until the function returns
SpecJusta == Init /\ [][NextJusta]_vars /\ WF_vars(Passo(1))

\* C23: within one run of a job the progress of its record stays in 0..100 and
\* never decreases from one update to the next, whether the run succeeds or
\* fails.
C23_ProgressoNaoDecresce ==
    [][\A id \in DOMAIN tarefas_estado \cap DOMAIN tarefas_estado' :
        /\ tarefas_estado'[id]["progresso"] \in 0..100
        /\ tarefas_estado'[id]["progresso"] >= tarefas_estado[id]["progresso"]]_vars

\* C24: in every registry state the runner produces, a record has an error only
\* when its status is erro, and never an error together with results.
C24_ErroSoEmErro ==
    \A id \in DOMAIN tarefas_estado :
        LET tarefa == tarefas_estado[id] IN
            /\ tarefa["erro"] # None => tarefa["status"] = "erro"
            /\ ~(tarefa["erro"] # None /\ tarefa["resultados"] # None)

\* the close raised after the record had been marked concluido with results: the
\* handler has recorded the error
C24_Witness ==
    \E id \in DOMAIN exec \cap DOMAIN tarefas_estado :
        /\ exec[id].exportacao # None
        /\ exec[id].exc = Some(ExcQuit)
        /\ tarefas_estado[id]["erro"] = Some(Str(ExcQuit))
        /\ tarefas_estado[id]["resultados"] = None

\* C25: no exception leaves the runner. An exception of the session creation, of
\* the walk or of the close is pending only until the handler of the outer try
\* takes it; the runner then returns normally, and the record, when it is still
\* in the registry, carries the exception's message.
C25_NuncaPropaga ==
    \A id \in DOMAIN exec :
        LET q == exec[id] IN
            /\ q.pc # "propagou"
            /\ q.exc # None => q.pc \in {"finally", "except", "fim"}
            /\ (q.pc = "fim" /\ q.exc # None /\ id \in DOMAIN tarefas_estado)
                => /\ tarefas_estado[id]["status"] = "erro"
                   /\ tarefas_estado[id]["erro"] = Some(Str(Valor(q.exc)))

\* the session could not be created, and the runner has returned with the
\* failure recorded
C25_Witness ==
    \E id \in DOMAIN exec \cap DOMAIN tarefas_estado :
        /\ exec[id].pc = "fim"
        /\ exec[id].exc = Some(ExcSessao)
        /\ exec[id].scraper = "nenhum"
        /\ tarefas_estado[id]["erro"] = Some(Str(ExcSessao))

\* C27: the writer the runner calls is the one the configuration names:
\* salvar_em_excel when salvar_excel is true, salvar_em_csv when it is false,
\* whether the list of results is empty or not.
C27_EscritorPelaConfiguracao ==
    \A id \in DOMAIN exec :
        exec[id].exportacao # None
        => Valor(exec[id].exportacao).escritor
            = IF exec[id].config.salvar_excel
              THEN "salvar_em_excel" ELSE "salvar_em_csv"

\* C30: a writer that returns False does not fail the job: the runner goes on to
\* the update of lines 441-449 with no exception pending, and that update marks
\* the record concluido with the whole list of results and no error.
C30_ExportacaoFalhaNaoFalhaOJob ==
    [][\A id \in DOMAIN exec :
        LET q == exec[id]
            r == exec'[id]
        IN /\ (q.exportacao = None /\ r.exportacao # None
                    /\ ~Valor(r.exportacao).ret)
                => r.pc = "concluir" /\ r.exc = None
           /\ (q.pc = "concluir" /\ r.pc # "concluir"
                    /\ ~Valor(q.exportacao).ret
                    /\ id \in DOMAIN tarefas_estado)
                => /\ id \in DOMAIN tarefas_estado'
                   /\ tarefas_estado'[id]["status"] = "concluido"
                   /\ tarefas_estado'[id]["progresso"] = 100
                   /\ tarefas_estado'[id]["erro"] = None
                   /\ ResultadosVistos(tarefas_estado', heap', id)
                        = Some(heap[Valor(q.resultados)])]_vars

\* the writer returned False for a list that is not empty, and the record is
\* concluido with that list
C30_Witness ==
    \E id \in DOMAIN exec \cap DOMAIN tarefas_estado :
        /\ exec[id].exportacao # None
        /\ ~Valor(exec[id].exportacao).ret
        /\ heap[Valor(exec[id].resultados)] # <<>>
        /\ exec[id].pc = "finally"
        /\ tarefas_estado[id]["status"] = "concluido"
        /\ ResultadosVistos(tarefas_estado, heap, id)
            = Some(heap[Valor(exec[id].resultados)])

-----------------------------------------------------------------------------
(* Termination of the walk and of the job, checked under SpecJusta *)



\* the walk of this configuration ends: by its page cap or by the end of the
\* chain of next links
Termina(config) ==
    config.max_paginas # None \/ CadeiaFinita(config.url_inicial)

Terminais == {"concluido", "erro"}

\* C26: a submitted job whose walk terminates is started and runs until the
\* runner returns; when the runner has returned, the record, unless it was
\* purged, has status concluido or erro, never aguardando or em_progresso.
C26_JobChegaAoFim ==
    /\ \A id \in TarefaIds :
        (id \in DOMAIN exec /\ Termina(exec[id].config))
            ~> (/\ id \in DOMAIN exec
                /\ exec[id].pc = "fim"
                /\ id \in DOMAIN tarefas_estado
                    => tarefas_estado[id]["status"] \in Terminais)
    /\ [](\A id \in DOMAIN exec \cap DOMAIN tarefas_estado :
            exec[id].pc = "fim" => tarefas_estado[id]["status"] \in Terminais)

\* a job that walked two listing pages has returned and its record is concluido
C26_Witness ==
    \E id \in DOMAIN exec \cap DOMAIN tarefas_estado :
        /\ exec[id].pc = "fim"
        /\ Len(exec[id].visitadas) = 2
        /\ tarefas_estado[id]["status"] = "concluido"

\* a walk without a page cap on a chain of next links that comes back to a page
\* already visited
SemFim(config) ==
    config.max_paginas = None /\ ~CadeiaFinita(config.url_inicial)

\* C28: processar_todas_paginas returns or raises whenever a page cap is
\* configured, and without a cap whenever the chain of next links is finite and
\* acyclic. Without a cap, on a chain that leads back to a visited listing page,
\* the while condition holds at every evaluation and every page has items, so
\* the walk never returns: only an exception of the browser ends it.
C28_WalkerTermina ==
    /\ \A id \in TarefaIds :
        (id \in DOMAIN exec /\ exec[id].pc = "walk" /\ Termina(exec[id].config))
            ~> (id \in DOMAIN exec /\ exec[id].pc # "walk")
    /\ [](\A id \in DOMAIN exec :
            LET q == exec[id] IN
                SemFim(q.config)
                => /\ q.resultados = None
                   /\ q.pc = "walk"
                        => /\ Continua(q)
                           /\ ExtrairLinhasDaPagina(Valor(q.url_atual)) # <<>>)

\* the uncapped walk of the cyclic listing is at its first page for the second
\* time, and goes on
C28_Witness ==
    \E id \in DOMAIN exec :
        /\ SemFim(exec[id].config)
        /\ exec[id].pc = "walk"
        /\ exec[id].visitadas = <<"c1", "c2", "c1">>
        /\ exec[id].url_atual = Some("c2")

-----------------------------------------------------------------------------
(* Properties of the task listing, checked under SpecListagem *)

\* C29: in every response of listar_tarefas the counters em_progresso,
\* concluido, erro and aguardando add up to total_tarefas, and em_progresso is
\* the number of listed tasks whose status is em_progresso.
C29_ContadoresSomamTotal ==
    (resposta # None /\ "endpoint" \in DOMAIN Valor(resposta))
    => LET r == Valor(resposta) IN
         (r.endpoint = "listar_tarefas" /\ r.status_code = 200)
         => LET body == r.conteudo.body IN
              /\ body.resumo.em_progresso + body.resumo.concluido
                    + body.resumo.erro + body.resumo.aguardando
                 = body.total_tarefas
              /\ body.resumo.em_progresso = Contar(body.tarefas, "em_progresso")

=============================================================================
